---- MODULE Spec2Model ----
(***************************************************************************)
(* Model of the incremental sales loader (ex3.py), of the referential      *)
(* validator and load of ex5.py, of the metadata fetch, enrichment and     *)
(* load of ex6.py, and of the customer de-duplication of ex2.py to ex6.py. *)
(* Each part has its own variables and its own specification; the          *)
(* variables of the other parts stay at their initial values.              *)
(*                                                                         *)
(* A sales row is modelled by the columns the loader inspects:             *)
(* transaction_id and transaction_date.  The other columns (product_id,    *)
(* customer_id, quantity) are selected and copied unchanged by             *)
(* ex3.py:230 and ex3.py:264-266 and are left out.                         *)
(*                                                                         *)
(* A calendar date is its day ordinal.  In a DataFrame the column          *)
(* transaction_date is TEXT, the zero padded string strftime produces      *)
(* (ex3.py:159), modelled as the sequence of its digits; in the sink and   *)
(* in the state table it is a DATE, the ordinal.                           *)
(***************************************************************************)
EXTENDS Integers, Sequences, FiniteSets, Bags

\* ---------------------------------------------------------------- bounds
MaxRows == 2
MaxRuns == 2
MaxKey == 2
MaxParents == 2
MaxSales == 2
MaxRecords == 2
MaxCustomers == 2

\* ------------------------------------------------- program constants
\* ex6.py:42-43
MAX_RETRIES == 3

BACKOFF_FACTOR == 2

\* ------------------------------------------------------------ value sets
\* the invocations of the loader; Spec runs one writer at a time
AllProcs == {1, 2}

\* two transaction ids: a batch can repeat one and can leave one out
TransactionIds == {1, 2}

\* two consecutive days, either side of the one digit / two digit border
Dates == {9, 10}

\* a nullable column: <<>> is NULL (None), <<v>> is the value v
None == <<>>

Some(v) == <<v>>

\* a strftime without zero padding ("%-d")
Strftime_noPad(d) == IF d < 10 THEN <<d>> ELSE <<d \div 10, d % 10>>

\* ------------------------------------------------------ dates and strings
\* dt.strftime("%Y-%m-%d"): fixed width, zero padded
Strftime(d) == <<d \div 10, d % 10>>

RECURSIVE DigitsValue(_)
DigitsValue(s) ==
    IF s = <<>> THEN 0
    ELSE 10 * DigitsValue(SubSeq(s, 1, Len(s) - 1)) + s[Len(s)]

\* pd.to_datetime on a date string; also the TEXT -> DATE cast of the INSERT
to_datetime(s) == DigitsValue(s)

\* Python's str ordering (lexicographic), used by Series.max() on a TEXT column
StrLess(a, b) ==
    \E i \in 1..Len(b) :
        /\ i <= Len(a) + 1
        /\ \A j \in 1..(i - 1) : a[j] = b[j]
        /\ (i = Len(a) + 1 \/ a[i] < b[i])

StrMax(S) == CHOOSE s \in S : \A t \in S : ~StrLess(s, t)

\* -------------------------------------------------------------- dataframes
Range(s) == {s[i] : i \in DOMAIN s}

BagOfSeq(s) == [r \in Range(s) |-> Cardinality({i \in DOMAIN s : s[i] = r})]

\* the rows transform_sales returns: dates already normalised by strftime
CleanRows == [transaction_id : TransactionIds, transaction_date : {Strftime(d) : d \in Dates}]

SeqsUpTo(S, n) == UNION {[1..k -> S] : k \in 0..n}

CleanBatches == SeqsUpTo(CleanRows, MaxRows)

IsSortedByDate(df) ==
    \A i, j \in DOMAIN df :
        i < j => to_datetime(df[i].transaction_date) <= to_datetime(df[j].transaction_date)

\* df.sort_values(col): ascending; the default quicksort is not stable, so rows
\* of equal date come out in any order
SortValues(df) ==
    {[i \in DOMAIN df |-> df[p[i]]] :
        p \in {q \in [DOMAIN df -> DOMAIN df] :
                 /\ \A i, j \in DOMAIN df : i # j => q[i] # q[j]
                 /\ IsSortedByDate([i \in DOMAIN df |-> df[q[i]]])}}

\* the row of ex_3_sales an INSERT ... SELECT makes of a staged row
SinkRow(r) ==
    [transaction_id |-> r.transaction_id, transaction_date |-> to_datetime(r.transaction_date)]

\* --------------------------------------------- ex5.py, referential check
VARIABLES
    riPc,           \* ex5 main: "cleaned" before the check, "validated" after
    sales_df,       \* cleaned sales, argument of validate_referential_integrity
    products_df,    \* column product_id of the cleaned products
    customers_df,   \* column customer_id of the cleaned customers
    valid_df,       \* first result
    rejected_df,    \* second result, with column reject_reason
    ex5_tables      \* load_to_mariadb: the ex_5 tables it wrote, None before

riVars == <<riPc, sales_df, products_df, customers_df, valid_df, rejected_df, ex5_tables>>

Keys == 1..MaxKey

\* a cleaned sales row; idx is its DataFrame index label
SalesRow(i, pid, cid) == [idx |-> i, product_id |-> pid, customer_id |-> cid]

SalesFrames ==
    {[i \in DOMAIN f |-> SalesRow(i, f[i][1], f[i][2])] : f \in SeqsUpTo(Keys \X Keys, MaxSales)}

KeyColumns == SeqsUpTo(Keys, MaxParents)

\* lines 243-247: set(column), then Series.isin
prod_ok(r, products) == r.product_id \in Range(products)

cust_ok(r, customers) == r.customer_id \in Range(customers)

\* the customer test forgotten
referential_ok_productOnly(r, products, customers) == prod_ok(r, products)

\* line 249
referential_ok(r, products, customers) == prod_ok(r, products) /\ cust_ok(r, customers)

\* only the product test sends a row to the rejects
rejected_mask_productOnly(r, products, customers) == ~prod_ok(r, products)

\* line 250
rejected_mask(r, products, customers) == ~referential_ok(r, products, customers)

\* lines 256-258: the reason starts empty and each failed test appends its tag
reject_reason(r, products, customers) ==
    (IF ~prod_ok(r, products) THEN <<"INVALID_PRODUCT_ID;">> ELSE <<>>)
    \o (IF ~cust_ok(r, customers) THEN <<"INVALID_CUSTOMER_ID;">> ELSE <<>>)

\* line 253
ValidFrame(df, products, customers) ==
    SelectSeq(df, LAMBDA r : referential_ok(r, products, customers))

\* lines 252, 256-258
RejectedFrame(df, products, customers) ==
    LET rej == SelectSeq(df, LAMBDA r : rejected_mask(r, products, customers))
    IN  [i \in DOMAIN rej |->
            [idx |-> rej[i].idx, product_id |-> rej[i].product_id,
             customer_id |-> rej[i].customer_id,
             reject_reason |-> reject_reason(rej[i], products, customers)]]

\* ex5 not running
RIIdle ==
    /\ riPc = "off"
    /\ sales_df = <<>>
    /\ products_df = <<>>
    /\ customers_df = <<>>
    /\ valid_df = <<>>
    /\ rejected_df = <<>>
    /\ ex5_tables = None

\* lines 330-332: the three cleaned frames, any content
RICleaned ==
    /\ riPc = "cleaned"
    /\ sales_df \in SalesFrames
    /\ products_df \in KeyColumns
    /\ customers_df \in KeyColumns
    /\ valid_df = <<>>
    /\ rejected_df = <<>>
    /\ ex5_tables = None

\* ------------------------------------------------- ex6.py, the pipeline
VARIABLES
    ex6pc,                 \* main of ex6: "off", "fetch", "fetched", "enriched", "loaded"
    endpoint_body,         \* the array the endpoint serves with a status 200
    ex6_products_clean,    \* clean_products result, column product_id
    ex6_customers_clean,   \* clean_customers result, column customer_id
    ex6_sales_clean,       \* clean_sales result, columns product_id, customer_id
    attempt,               \* fetch_all_product_metadata: local attempt
    requests,              \* history: requests.get calls so far
    waits,                 \* history: the time.sleep arguments so far
    outcomes,              \* history: what each request came to
    api_metadata_df,       \* what fetch_all_product_metadata returned
    fetch_exit,            \* history: the return statement taken
    products_enriched,     \* what enrich_products_with_api returned
    ex6_tables             \* ex_6_products, ex_6_customers, ex_6_sales: None or Some

ex6Vars ==
    <<ex6pc, endpoint_body, ex6_products_clean, ex6_customers_clean, ex6_sales_clean, attempt,
      requests, waits, outcomes, api_metadata_df, fetch_exit, products_enriched, ex6_tables>>

\* ------------------------------------- customer de-duplication, ex2 to ex6
VARIABLES
    dedupPc,          \* "off", "cleaned" (emails checked), "deduplicated"
    program,          \* which script runs: "ex2", "ex3", "ex5", "ex6"
    customers_in,     \* the frame that reaches the de-duplication
    customers_out     \* the frame it returns

dedupVars == <<dedupPc, program, customers_in, customers_out>>

\* ------------------------------------------- ex5 cleaning, required fields
VARIABLES
    cleanPc,            \* "off", "raw" (the file is read), "done" (the function returned)
    clean_entity,       \* which file: "products", "customers", "sales"
    clean_raw,          \* the frame read_csv returns, rows labelled by their index
    crit_missing_mask,  \* local crit_missing_mask, by row index
    clean_out           \* the frame the cleaning function returns

cleanVars == <<cleanPc, clean_entity, clean_raw, crit_missing_mask, clean_out>>

\* ------------------------------------------------------------------ state
VARIABLES
    sales_exists,   \* table ex_3_sales exists
    sales,          \* committed rows of ex_3_sales, a bag of sink rows
    stage,          \* table ex_3_sales_stage: None, or Some(its rows)
    etl_state,      \* ex_3_etl_state row of 'ex_3_sales': None, or Some(row)
    now,            \* datetime.now(), one tick per run
    pc,             \* per invocation: the statement it executes next
    sales_clean,    \* per invocation: the argument of load_incremental_sales
    last_wm,        \* per invocation: local last_wm
    inc_df,         \* per invocation: local inc_df
    tx,             \* per invocation: uncommitted writes of its connection
    preSales,       \* history: sales when the current run started
    preState,       \* history: etl_state when the current run started
    sameAsPrev,     \* history: the run got the source of the run before it
    prevOutcome,    \* history: how the run before ended; for a run on the same source,
                    \* the statement at which the run before raised
    failedAt,       \* history: the statement at which the current run raised
    wmHigh,         \* history: the newest last_processed_date ever stored
    overlap         \* history: a run has started while another was under way

\* everything the loader does not touch
notLoader == <<riVars, ex6Vars, dedupVars, cleanVars>>

loaderVars ==
    <<sales_exists, sales, stage, etl_state, now, pc, sales_clean, last_wm, inc_df, tx,
      preSales, preState, sameAsPrev, prevOutcome, failedAt, wmHigh, overlap>>

NoWrites == [del |-> EmptyBag, ins |-> EmptyBag]

\* ------------------------------------------------- ex3.py, the state table
\* the stored watermark is never read: every run takes the full batch
get_last_watermark_ignored(state) == None

\* get_last_watermark: None when there is no row, else the column (may be NULL)
get_last_watermark(state) ==
    IF state = None THEN None ELSE state[1].last_processed_date

\* update_state: INSERT ... ON DUPLICATE KEY UPDATE of the single row
update_state(new_watermark, ts, rows_processed) ==
    Some([last_processed_date |-> new_watermark,
          last_run_ts |-> ts,
          last_run_rows |-> rows_processed])

\* the newer of two stored watermarks, NULL being older than every date
Newest(a, b) == IF a = None THEN b ELSE IF b = None THEN a ELSE IF a[1] <= b[1] THEN b ELSE a

\* the date filter forgotten: every run is a full load
IncrementalRows_noFilter(df, wm) == df

\* the filter keeps the rows dated on the watermark too
IncrementalRows_inclusive(df, wm) ==
    IF wm = None THEN df
    ELSE SelectSeq(df, LAMBDA r : to_datetime(r.transaction_date) >= wm[1])

\* ------------------------------------------ ex3.py, load_incremental_sales
\* lines 222-227: full batch without a watermark, else the rows dated after it
IncrementalRows(df, wm) ==
    IF wm = None THEN df
    ELSE SelectSeq(df, LAMBDA r : to_datetime(r.transaction_date) > wm[1])

\* min() written for max()
NewWatermark_min(df) ==
    to_datetime(CHOOSE s \in {df[i].transaction_date : i \in DOMAIN df} :
                    \A t \in {df[i].transaction_date : i \in DOMAIN df} : ~StrLess(t, s))

\* lines 272-273: max of the TEXT column, then parsed to a date
NewWatermark(df) ==
    to_datetime(StrMax({df[i].transaction_date : i \in DOMAIN df}))

\* the DELETE left out: a plain append
DeletedByJoin_none(sink, staged) == EmptyBag

\* lines 256-261: DELETE s FROM ex_3_sales s JOIN ex_3_sales_stage st ON tid
DeletedByJoin(sink, staged) ==
    LET ids == {staged[i].transaction_id : i \in DOMAIN staged}
        hit == {r \in BagToSet(sink) : r.transaction_id \in ids}
    IN  [r \in hit |-> sink[r]]

\* the INSERT takes the first staged row only
InsertedFromStage_firstRow(staged) ==
    BagOfSeq([i \in DOMAIN staged \cap {1} |-> SinkRow(staged[i])])

\* lines 263-267: INSERT INTO ex_3_sales SELECT ... FROM ex_3_sales_stage
InsertedFromStage(staged) ==
    BagOfSeq([i \in DOMAIN staged |-> SinkRow(staged[i])])

\* a commit that applies the INSERT and loses the DELETE
Committed_insertOnly(sink, w) == sink (+) w.ins

\* what a commit of the connection's writes makes of the table
Committed(sink, w) == (sink (-) w.del) (+) w.ins

\* some writer of the set is between its watermark read and its return
UnderWay(writers) == \E q \in writers : pc[q] \notin {"idle", "done", "failed"}

\* a pipeline-level lock: a run starts only when no other run is under way
GetLastWatermark_locked(p) ==
    /\ pc[p] = "idle"
    /\ \A q \in AllProcs \ {p} : pc[q] \in {"idle", "done", "failed"}
    /\ now < MaxRuns
    /\ \E src \in CleanBatches : sales_clean' = [sales_clean EXCEPT ![p] = src]
    /\ sameAsPrev' = FALSE
    /\ now' = now + 1
    /\ last_wm' = [last_wm EXCEPT ![p] = get_last_watermark(etl_state)]
    /\ preSales' = sales
    /\ preState' = etl_state
    /\ pc' = [pc EXCEPT ![p] = "filter"]
    /\ overlap' = (overlap \/ UnderWay(AllProcs \ {p}))
    /\ UNCHANGED <<notLoader, sales_exists, sales, stage, etl_state, inc_df, tx, prevOutcome,
                   failedAt, wmHigh>>

\* lines 213-220: a run starts; main() has read and cleaned the source
GetLastWatermark(p) ==
    /\ pc[p] = "idle"
    /\ now < MaxRuns
    /\ \E src \in CleanBatches : sales_clean' = [sales_clean EXCEPT ![p] = src]
    /\ sameAsPrev' = FALSE
    /\ now' = now + 1
    /\ last_wm' = [last_wm EXCEPT ![p] = get_last_watermark(etl_state)]
    /\ preSales' = sales
    /\ preState' = etl_state
    /\ pc' = [pc EXCEPT ![p] = "filter"]
    /\ overlap' = (overlap \/ UnderWay(AllProcs \ {p}))
    /\ UNCHANGED <<notLoader, sales_exists, sales, stage, etl_state, inc_df, tx, prevOutcome,
                   failedAt, wmHigh>>

\* lines 222-235: filter, sort, count
FilterAndSort(p) ==
    /\ pc[p] = "filter"
    /\ \E sorted \in SortValues(IncrementalRows(sales_clean[p], last_wm[p])) :
        /\ inc_df' = [inc_df EXCEPT ![p] = sorted]
        /\ pc' = [pc EXCEPT ![p] = IF Len(sorted) = 0 THEN "empty" ELSE "stage"]
    /\ UNCHANGED <<notLoader, overlap, sales_exists, sales, stage, etl_state, now, sales_clean, last_wm,
                   tx, preSales, preState, sameAsPrev, prevOutcome, failedAt, wmHigh>>

\* the early return without the update_state call
UpdateStateNoRows_skip(p) ==
    /\ pc[p] = "empty"
    /\ pc' = [pc EXCEPT ![p] = "done"]
    /\ UNCHANGED <<notLoader, overlap, sales_exists, sales, stage, etl_state, now, sales_clean, last_wm,
                   inc_df, tx, preSales, preState, sameAsPrev, prevOutcome, failedAt, wmHigh>>

\* lines 235-239: nothing to load, the state row is written all the same
UpdateStateNoRows(p) ==
    /\ pc[p] = "empty"
    /\ etl_state' = update_state(last_wm[p], now, 0)
    /\ wmHigh' = Newest(wmHigh, last_wm[p])
    /\ pc' = [pc EXCEPT ![p] = "done"]
    /\ UNCHANGED <<notLoader, overlap, sales_exists, sales, stage, now, sales_clean, last_wm, inc_df, tx,
                   preSales, preState, sameAsPrev, prevOutcome, failedAt>>

\* line 242: inc_df.to_sql("ex_3_sales_stage", if_exists="replace")
StageBatch(p) ==
    /\ pc[p] = "stage"
    /\ stage' = Some(inc_df[p])
    /\ pc' = [pc EXCEPT ![p] = "create"]
    /\ UNCHANGED <<notLoader, overlap, sales_exists, sales, etl_state, now, sales_clean, last_wm, inc_df,
                   tx, preSales, preState, sameAsPrev, prevOutcome, failedAt, wmHigh>>

\* lines 244-254: engine.begin(), CREATE TABLE IF NOT EXISTS ex_3_sales
CreateSalesTable(p) ==
    /\ pc[p] = "create"
    /\ sales_exists' = TRUE
    /\ tx' = [tx EXCEPT ![p] = NoWrites]
    /\ pc' = [pc EXCEPT ![p] = "delete"]
    /\ UNCHANGED <<notLoader, overlap, sales, stage, etl_state, now, sales_clean, last_wm, inc_df,
                   preSales, preState, sameAsPrev, prevOutcome, failedAt, wmHigh>>

\* the DELETE run outside the transaction (autocommit)
DeleteMatching_autocommit(p) ==
    /\ pc[p] = "delete"
    /\ stage # None
    /\ sales' = sales (-) DeletedByJoin(sales, stage[1])
    /\ pc' = [pc EXCEPT ![p] = "insert"]
    /\ UNCHANGED <<notLoader, overlap, sales_exists, stage, etl_state, now, sales_clean, last_wm, inc_df,
                   tx, preSales, preState, sameAsPrev, prevOutcome, failedAt, wmHigh>>

\* lines 256-261: the DELETE, inside the transaction
DeleteMatching(p) ==
    /\ pc[p] = "delete"
    /\ stage # None
    /\ tx' = [tx EXCEPT ![p].del = DeletedByJoin(sales, stage[1])]
    /\ pc' = [pc EXCEPT ![p] = "insert"]
    /\ UNCHANGED <<notLoader, overlap, sales_exists, sales, stage, etl_state, now, sales_clean, last_wm,
                   inc_df, preSales, preState, sameAsPrev, prevOutcome, failedAt, wmHigh>>

\* lines 263-267: the INSERT, inside the transaction
InsertStaged(p) ==
    /\ pc[p] = "insert"
    /\ stage # None
    /\ tx' = [tx EXCEPT ![p].ins = InsertedFromStage(stage[1])]
    /\ pc' = [pc EXCEPT ![p] = "drop"]
    /\ UNCHANGED <<notLoader, overlap, sales_exists, sales, stage, etl_state, now, sales_clean, last_wm,
                   inc_df, preSales, preState, sameAsPrev, prevOutcome, failedAt, wmHigh>>

\* line 269 and the end of the with block.  DROP TABLE is DDL: the server
\* (mysql+pymysql, ex3.py:33-35) commits the open transaction before it
\* executes the statement, so the commit of the with block finds nothing left.
DropStage(p) ==
    /\ pc[p] = "drop"
    /\ stage # None
    /\ sales' = Committed(sales, tx[p])
    /\ tx' = [tx EXCEPT ![p] = NoWrites]
    /\ stage' = None
    /\ pc' = [pc EXCEPT ![p] = "update"]
    /\ UNCHANGED <<notLoader, overlap, sales_exists, etl_state, now, sales_clean, last_wm, inc_df,
                   preSales, preState, sameAsPrev, prevOutcome, failedAt, wmHigh>>

\* the row count is stored, the watermark is left where it was
UpdateState_keepsWatermark(p) ==
    /\ pc[p] = "update"
    /\ etl_state' = update_state(last_wm[p], now, Len(inc_df[p]))
    /\ wmHigh' = Newest(wmHigh, last_wm[p])
    /\ pc' = [pc EXCEPT ![p] = "done"]
    /\ UNCHANGED <<notLoader, overlap, sales_exists, sales, stage, now, sales_clean, last_wm, inc_df, tx,
                   preSales, preState, sameAsPrev, prevOutcome, failedAt>>

\* lines 272-275: the watermark moves to the newest date of the batch
UpdateState(p) ==
    /\ pc[p] = "update"
    /\ etl_state' = update_state(Some(NewWatermark(inc_df[p])), now, Len(inc_df[p]))
    /\ wmHigh' = Newest(wmHigh, Some(NewWatermark(inc_df[p])))
    /\ pc' = [pc EXCEPT ![p] = "done"]
    /\ UNCHANGED <<notLoader, overlap, sales_exists, sales, stage, now, sales_clean, last_wm, inc_df, tx,
                   preSales, preState, sameAsPrev, prevOutcome, failedAt>>

\* line 242 raises: nothing of the sink or of the state table was touched
FailStage(p) ==
    /\ pc[p] = "stage"
    /\ failedAt' = pc[p]
    /\ pc' = [pc EXCEPT ![p] = "failed"]
    /\ UNCHANGED <<notLoader, overlap, sales_exists, sales, stage, etl_state, now, sales_clean, last_wm,
                   inc_df, tx, preSales, preState, sameAsPrev, prevOutcome, wmHigh>>

\* CREATE, DELETE or INSERT raises: engine.begin() rolls the connection back
FailInTransaction(p) ==
    /\ pc[p] \in {"create", "delete", "insert"}
    /\ tx' = [tx EXCEPT ![p] = NoWrites]
    /\ failedAt' = pc[p]
    /\ pc' = [pc EXCEPT ![p] = "failed"]
    /\ UNCHANGED <<notLoader, overlap, sales_exists, sales, stage, etl_state, now, sales_clean, last_wm,
                   inc_df, preSales, preState, sameAsPrev, prevOutcome, wmHigh>>

\* DROP TABLE raises.  Either the statement never reached the server and the
\* rollback undoes DELETE and INSERT, or the server took it, committed them
\* implicitly and then failed to drop; the rollback then finds nothing to undo.
FailDrop(p) ==
    /\ pc[p] = "drop"
    /\ \E reached \in BOOLEAN :
        sales' = IF reached THEN Committed(sales, tx[p]) ELSE sales
    /\ tx' = [tx EXCEPT ![p] = NoWrites]
    /\ failedAt' = pc[p]
    /\ pc' = [pc EXCEPT ![p] = "failed"]
    /\ UNCHANGED <<notLoader, overlap, sales_exists, stage, etl_state, now, sales_clean, last_wm, inc_df,
                   preSales, preState, sameAsPrev, prevOutcome, wmHigh>>

\* update_state raises (lines 237, 274): its own transaction rolls back
FailUpdateState(p) ==
    /\ pc[p] \in {"empty", "update"}
    /\ failedAt' = pc[p]
    /\ pc' = [pc EXCEPT ![p] = "failed"]
    /\ UNCHANGED <<notLoader, overlap, sales_exists, sales, stage, etl_state, now, sales_clean, last_wm,
                   inc_df, tx, preSales, preState, sameAsPrev, prevOutcome, wmHigh>>

\* lines 316-321: the process ends, normally or by the re-raised exception;
\* its locals are gone, the tables stay
EndRun(p) ==
    /\ pc[p] \in {"done", "failed"}
    /\ prevOutcome' = pc[p]
    /\ pc' = [pc EXCEPT ![p] = "idle"]
    /\ sales_clean' = [sales_clean EXCEPT ![p] = <<>>]
    /\ last_wm' = [last_wm EXCEPT ![p] = None]
    /\ inc_df' = [inc_df EXCEPT ![p] = <<>>]
    /\ preSales' = sales
    /\ preState' = etl_state
    /\ sameAsPrev' = FALSE
    /\ failedAt' = "none"
    /\ UNCHANGED <<notLoader, overlap, sales_exists, sales, stage, etl_state, now, tx, wmHigh>>

\* the process ends and the pipeline is started again on the unchanged source
\* files: main() reads and cleans the same batch (lines 303-309, 213-220)
RunAgainUnchanged(p) ==
    /\ pc[p] \in {"done", "failed"}
    /\ now < MaxRuns
    /\ prevOutcome' = IF pc[p] = "failed" THEN failedAt ELSE pc[p]
    /\ sameAsPrev' = TRUE
    /\ now' = now + 1
    /\ last_wm' = [last_wm EXCEPT ![p] = get_last_watermark(etl_state)]
    /\ inc_df' = [inc_df EXCEPT ![p] = <<>>]
    /\ preSales' = sales
    /\ preState' = etl_state
    /\ failedAt' = "none"
    /\ pc' = [pc EXCEPT ![p] = "filter"]
    /\ UNCHANGED <<notLoader, overlap, sales_exists, sales, stage, etl_state, sales_clean, tx, wmHigh>>

\* ex3-test.py lines 23-49: the rows the script appends to sales.csv, row i
\* with the transaction id max_id + i and the date max_date + i days
NewRows(df, n) ==
    LET max_id == CHOOSE m \in {df[i].transaction_id : i \in DOMAIN df} :
                      \A i \in DOMAIN df : df[i].transaction_id <= m
        max_date == CHOOSE d \in {to_datetime(df[i].transaction_date) : i \in DOMAIN df} :
                        \A i \in DOMAIN df : to_datetime(df[i].transaction_date) <= d
    IN  [i \in 1..n |-> [transaction_id |-> max_id + i,
                         transaction_date |-> Strftime(max_date + i)]]

\* ex3-test.py appends rows to the source of the finished run and the
\* pipeline is run on the longer file (ex3.py lines 303-309, 213-220)
RunAppended(p) ==
    /\ pc[p] = "done"
    /\ now < MaxRuns
    /\ sales_clean[p] # <<>>
    /\ \E n \in 1..(MaxRows - Len(sales_clean[p])) :
           sales_clean' = [sales_clean EXCEPT ![p] = sales_clean[p] \o NewRows(sales_clean[p], n)]
    /\ prevOutcome' = pc[p]
    /\ sameAsPrev' = FALSE
    /\ now' = now + 1
    /\ last_wm' = [last_wm EXCEPT ![p] = get_last_watermark(etl_state)]
    /\ inc_df' = [inc_df EXCEPT ![p] = <<>>]
    /\ preSales' = sales
    /\ preState' = etl_state
    /\ failedAt' = "none"
    /\ pc' = [pc EXCEPT ![p] = "filter"]
    /\ UNCHANGED <<notLoader, overlap, sales_exists, sales, stage, etl_state, tx, wmHigh>>

\* lines 229-268, called at lines 335-337
ValidateReferentialIntegrity ==
    /\ riPc = "cleaned"
    /\ valid_df' = ValidFrame(sales_df, products_df, customers_df)
    /\ rejected_df' = RejectedFrame(sales_df, products_df, customers_df)
    /\ riPc' = "validated"
    /\ UNCHANGED <<loaderVars, ex6Vars, dedupVars, cleanVars, sales_df, products_df, customers_df, ex5_tables>>

\* ex5.py lines 272-306, called at line 340: the tables are replaced by the
\* cleaned parents and the valid sales; the rejected rows are written when
\* there are any
Ex5LoadToMariadb ==
    /\ riPc = "validated"
    /\ ex5_tables' = Some([products |-> products_df,
                           customers |-> customers_df,
                           sales |-> valid_df,
                           sales_rejected |-> rejected_df])
    /\ riPc' = "loaded"
    /\ UNCHANGED <<loaderVars, ex6Vars, dedupVars, cleanVars, sales_df, products_df, customers_df, valid_df,
                   rejected_df>>

\* ------------------------------------------ ex6.py, the metadata endpoint
ProductIds == {1, 2}

CustomerIds == {1, 2}

\* a rating as the endpoint sends it: absent, not a number, or a number
\* below, inside and above the range 0..5
RawRatings ==
    {[kind |-> "missing", val |-> 0], [kind |-> "text", val |-> 0]}
        \cup [kind : {"num"}, val : {-1, 3, 6}]

\* a record of the served array; an absent or null field is None
ApiRecords ==
    [product_id : ProductIds,
     description : {None, Some("text")},
     rating : RawRatings,
     availability_status : {None, Some("In Stock")}]

\* the arrays the endpoint may serve
Bodies(records) == SeqsUpTo(records, MaxRecords)

RECURSIVE Pow(_, _)
Pow(b, n) == IF n = 0 THEN 1 ELSE b * Pow(b, n - 1)

\* one request more than the limit
LoopContinues_inclusive(a) == a <= MAX_RETRIES

\* line 73: while attempt < MAX_RETRIES
LoopContinues(a) == a < MAX_RETRIES

\* lines 78, 97: wait = BACKOFF_FACTOR ** attempt
Backoff(a) == Pow(BACKOFF_FACTOR, a)

\* line 127: pd.to_numeric(errors="coerce")
to_numeric(raw) == IF raw.kind = "num" THEN Some(raw.val) ELSE None

\* the upper limit not applied
Clamp_lowerOnly(rating) ==
    IF rating = None THEN None
    ELSE IF rating[1] < 0 THEN Some(0)
    ELSE rating

\* lines 131-135: ratings outside 0..5 are clipped, NaN stays
Clamp(rating) ==
    IF rating = None THEN None
    ELSE IF rating[1] < 0 THEN Some(0)
    ELSE IF rating[1] > 5 THEN Some(5)
    ELSE rating

\* lines 119-135: the four columns of one record, typed
NormalizeRecord(r) ==
    [product_id |-> r.product_id,
     description |-> r.description,
     rating |-> Clamp(to_numeric(r.rating)),
     availability_status |-> r.availability_status]

\* the rows of df at the positions S, in their order
RECURSIVE AtPositions(_, _)
AtPositions(df, S) ==
    IF S = {} THEN <<>>
    ELSE LET m == CHOOSE i \in S : \A j \in S : i <= j
         IN  <<df[m]>> \o AtPositions(df, S \ {m})

\* lines 137-142: drop_duplicates(subset=["product_id"], keep="last")
DropDuplicatesKeepLast(df) ==
    AtPositions(df, {i \in DOMAIN df :
                        \A j \in DOMAIN df : j > i => df[j].product_id # df[i].product_id})

\* lines 116-145: the frame made of a served array
Normalize(data) ==
    DropDuplicatesKeepLast([i \in DOMAIN data |-> NormalizeRecord(data[i])])

\* every variable of ex6 but the ones of the fetch loop
ex6Inputs == <<endpoint_body, ex6_products_clean, ex6_customers_clean, ex6_sales_clean>>

ex6Later == <<products_enriched, ex6_tables>>

\* lines 332, 71: main calls fetch_all_product_metadata, attempt = 0
CallFetch ==
    /\ ex6pc = "cleaned"
    /\ attempt' = 0
    /\ ex6pc' = "fetch"
    /\ UNCHANGED <<loaderVars, riVars, dedupVars, cleanVars, ex6Inputs, ex6Later, requests, waits, outcomes,
                   api_metadata_df, fetch_exit>>

\* the request is counted and what it came to is recorded
Requested(outcome) ==
    /\ requests' = requests + 1
    /\ outcomes' = Append(outcomes, outcome)

\* the function returns df through the return statement named by exit
Returns(df, exit) ==
    /\ api_metadata_df' = df
    /\ fetch_exit' = exit
    /\ ex6pc' = "fetched"

\* lines 76-84: requests.Timeout; the sleep follows every timeout
RequestTimeout ==
    /\ ex6pc = "fetch"
    /\ LoopContinues(attempt)
    /\ Requested("timeout")
    /\ attempt' = attempt + 1
    /\ waits' = Append(waits, Backoff(attempt + 1))
    /\ UNCHANGED <<loaderVars, riVars, dedupVars, cleanVars, ex6Inputs, ex6Later, ex6pc, api_metadata_df,
                   fetch_exit>>

\* a transport error answered by a retry
RequestException_retried ==
    /\ ex6pc = "fetch"
    /\ LoopContinues(attempt)
    /\ Requested("error")
    /\ attempt' = attempt + 1
    /\ waits' = Append(waits, Backoff(attempt + 1))
    /\ UNCHANGED <<loaderVars, riVars, dedupVars, cleanVars, ex6Inputs, ex6Later, ex6pc, api_metadata_df,
                   fetch_exit>>

\* lines 85-87: any other requests.RequestException
RequestException ==
    /\ ex6pc = "fetch"
    /\ LoopContinues(attempt)
    /\ Requested("error")
    /\ Returns(<<>>, "line 87")
    /\ UNCHANGED <<loaderVars, riVars, dedupVars, cleanVars, ex6Inputs, ex6Later, attempt, waits>>

\* a status other than 200 gives up at once
StatusNot200_noRetry ==
    /\ ex6pc = "fetch"
    /\ LoopContinues(attempt)
    /\ Requested("status")
    /\ attempt' = attempt + 1
    /\ Returns(<<>>, "line 96")
    /\ UNCHANGED <<loaderVars, riVars, dedupVars, cleanVars, ex6Inputs, ex6Later, waits>>

\* lines 89-103: a status other than 200; the last attempt returns
\* before the sleep
StatusNot200 ==
    /\ ex6pc = "fetch"
    /\ LoopContinues(attempt)
    /\ Requested("status")
    /\ attempt' = attempt + 1
    /\ IF attempt + 1 >= MAX_RETRIES
       THEN /\ Returns(<<>>, "line 96")
            /\ UNCHANGED waits
       ELSE /\ waits' = Append(waits, Backoff(attempt + 1))
            /\ UNCHANGED <<ex6pc, api_metadata_df, fetch_exit>>
    /\ UNCHANGED <<loaderVars, riVars, dedupVars, cleanVars, ex6Inputs, ex6Later>>

\* lines 106-110: status 200, resp.json() raises ValueError
BodyNotJson ==
    /\ ex6pc = "fetch"
    /\ LoopContinues(attempt)
    /\ Requested("not json")
    /\ Returns(<<>>, "line 110")
    /\ UNCHANGED <<loaderVars, riVars, dedupVars, cleanVars, ex6Inputs, ex6Later, attempt, waits>>

\* lines 112-114: status 200, the document is not a list
BodyNotList ==
    /\ ex6pc = "fetch"
    /\ LoopContinues(attempt)
    /\ Requested("not list")
    /\ Returns(<<>>, "line 114")
    /\ UNCHANGED <<loaderVars, riVars, dedupVars, cleanVars, ex6Inputs, ex6Later, attempt, waits>>

\* lines 116-145: status 200 and an array
BodyList ==
    /\ ex6pc = "fetch"
    /\ LoopContinues(attempt)
    /\ Requested("list")
    /\ Returns(Normalize(endpoint_body), "line 145")
    /\ UNCHANGED <<loaderVars, riVars, dedupVars, cleanVars, ex6Inputs, ex6Later, attempt, waits>>

\* lines 148-149: the loop is left after the last timeout
RetriesExhausted ==
    /\ ex6pc = "fetch"
    /\ ~LoopContinues(attempt)
    /\ Returns(<<>>, "line 149")
    /\ UNCHANGED <<loaderVars, riVars, dedupVars, cleanVars, ex6Inputs, ex6Later, attempt, requests, waits,
                   outcomes>>

\* ------------------------------------------ ex6.py, enrichment and load
NoDescription == "No description available."

\* the row of the metadata frame a left merge joins to product id, if any
Matches(api_df, id) == {i \in DOMAIN api_df : api_df[i].product_id = id}

\* lines 244-249: no metadata, the three columns are NULL
EnrichedWithoutMetadata(products) ==
    [i \in DOMAIN products |->
        [product_id |-> products[i],
         description |-> None,
         rating |-> None,
         availability_status |-> None]]

\* lines 251-292: left merge on product_id, then the defaults of
\* description and availability_status; rating stays NULL
EnrichedByMerge(products, api_df) ==
    [i \in DOMAIN products |->
        LET hit == Matches(api_df, products[i])
            row == api_df[CHOOSE j \in hit : TRUE]
        IN  [product_id |-> products[i],
             description |->
                 IF hit = {} \/ row.description = None
                 THEN Some(NoDescription) ELSE row.description,
             rating |-> IF hit = {} THEN None ELSE row.rating,
             availability_status |->
                 IF hit = {} \/ row.availability_status = None
                 THEN Some("Unknown") ELSE row.availability_status]]

\* enrich_products_with_api
enrich_products_with_api(products, api_df) ==
    IF api_df = <<>> THEN EnrichedWithoutMetadata(products)
    ELSE EnrichedByMerge(products, api_df)

\* the enrichment refuses an empty metadata frame: the run ends here
EnrichProducts_needsMetadata ==
    /\ ex6pc = "fetched"
    /\ api_metadata_df # <<>>
    /\ products_enriched' = enrich_products_with_api(ex6_products_clean, api_metadata_df)
    /\ ex6pc' = "enriched"
    /\ UNCHANGED <<loaderVars, riVars, dedupVars, cleanVars, ex6Inputs, attempt, requests, waits, outcomes,
                   api_metadata_df, fetch_exit, ex6_tables>>

\* line 333
EnrichProducts ==
    /\ ex6pc = "fetched"
    /\ products_enriched' = enrich_products_with_api(ex6_products_clean, api_metadata_df)
    /\ ex6pc' = "enriched"
    /\ UNCHANGED <<loaderVars, riVars, dedupVars, cleanVars, ex6Inputs, attempt, requests, waits, outcomes,
                   api_metadata_df, fetch_exit, ex6_tables>>

\* lines 335, 295-308: the three tables are replaced by the three frames
LoadToMariadb ==
    /\ ex6pc = "enriched"
    /\ ex6_tables' = Some([products |-> products_enriched,
                           customers |-> ex6_customers_clean,
                           sales |-> ex6_sales_clean])
    /\ ex6pc' = "loaded"
    /\ UNCHANGED <<loaderVars, riVars, dedupVars, cleanVars, ex6Inputs, attempt, requests, waits, outcomes,
                   api_metadata_df, fetch_exit, products_enriched>>

\* ex6 is not running
Ex6Off ==
    /\ ex6pc = "off"
    /\ endpoint_body = <<>>
    /\ ex6_products_clean = <<>>
    /\ ex6_customers_clean = <<>>
    /\ ex6_sales_clean = <<>>
    /\ attempt = 0
    /\ requests = 0
    /\ waits = <<>>
    /\ outcomes = <<>>
    /\ api_metadata_df = <<>>
    /\ fetch_exit = "none"
    /\ products_enriched = <<>>
    /\ ex6_tables = None

\* lines 328-330 done: the three inputs are cleaned, the endpoint has its array
Ex6Cleaned(bodies, productFrames, customerFrames, salesFrames) ==
    /\ ex6pc = "cleaned"
    /\ endpoint_body \in bodies
    /\ ex6_products_clean \in productFrames
    /\ ex6_customers_clean \in customerFrames
    /\ ex6_sales_clean \in salesFrames
    /\ attempt = 0
    /\ requests = 0
    /\ waits = <<>>
    /\ outcomes = <<>>
    /\ api_metadata_df = <<>>
    /\ fetch_exit = "none"
    /\ products_enriched = <<>>
    /\ ex6_tables = None

\* ------------------------------------- customer cleaning, ex2 to ex6
\* a row of customers.csv after replace({"": NA}): an empty cell is None
CustomerRecords ==
    [customer_id : CustomerIds,
     name : {None, Some("Ann")},
     email : {None, Some("not an email"), Some("ann@example.com")},
     country : {None, Some("RO")}]

\* str.match(email_pattern): local part, @, domain with a dot
MatchesEmailPattern(email) == email = Some("ann@example.com")

\* an email that is present and does not match is set to NULL
EmailChecked(r) ==
    [r EXCEPT !.email = IF r.email # None /\ ~MatchesEmailPattern(r.email) THEN None ELSE r.email]

\* ex5, ex6: df["name"].astype(str): a missing name becomes the text "nan"
NameAsStr(r) == [r EXCEPT !.name = IF r.name = None THEN Some("nan") ELSE r.name]

\* scores of choose_best_record: the non-null cells among name, email, country
Score(r) ==
    (IF r.name # None THEN 1 ELSE 0) + (IF r.email # None THEN 1 ELSE 0)
        + (IF r.country # None THEN 1 ELSE 0)

\* scores.idxmax(): the first position of the group with the highest score
choose_best_record(df, id) ==
    LET group == {i \in DOMAIN df : df[i].customer_id = id}
    IN  CHOOSE i \in group :
            /\ \A j \in group : Score(df[j]) <= Score(df[i])
            /\ \A j \in group : Score(df[j]) = Score(df[i]) => i <= j

\* groupby("customer_id").apply(choose_best_record): a row per key, keys ascending
GroupByChooseBest(df) ==
    LET ids == {df[i].customer_id : i \in DOMAIN df}
        nth(k) == CHOOSE id \in ids : Cardinality({other \in ids : other < id}) = k - 1
    IN  [k \in 1..Cardinality(ids) |-> df[choose_best_record(df, nth(k))]]

\* drop_duplicates(subset=["customer_id"], keep="first")
DropDuplicatesKeepFirst(df) ==
    AtPositions(df, {i \in DOMAIN df :
                        \A j \in DOMAIN df : j < i => df[j].customer_id # df[i].customer_id})

\* ex2.py lines 88-123, ex3.py lines 86-119: transform_customers
TransformCustomers ==
    /\ dedupPc = "raw"
    /\ program \in {"ex2", "ex3"}
    /\ customers_out' = GroupByChooseBest([i \in DOMAIN customers_in |-> EmailChecked(customers_in[i])])
    /\ dedupPc' = "done"
    /\ UNCHANGED <<loaderVars, riVars, ex6Vars, cleanVars, program, customers_in>>

\* ex5.py lines 106-155: clean_customers
Ex5CleanCustomers ==
    /\ dedupPc = "raw"
    /\ program = "ex5"
    /\ customers_out' =
           GroupByChooseBest([i \in DOMAIN customers_in |-> EmailChecked(NameAsStr(customers_in[i]))])
    /\ dedupPc' = "done"
    /\ UNCHANGED <<loaderVars, riVars, ex6Vars, cleanVars, program, customers_in>>

\* ex6.py lines 179-199: clean_customers
Ex6CleanCustomers ==
    /\ dedupPc = "raw"
    /\ program = "ex6"
    /\ customers_out' =
           DropDuplicatesKeepFirst(
               [i \in DOMAIN customers_in |-> EmailChecked(NameAsStr(customers_in[i]))])
    /\ dedupPc' = "done"
    /\ UNCHANGED <<loaderVars, riVars, ex6Vars, cleanVars, program, customers_in>>

\* ------------------------------------------- ex5 cleaning, required fields
\* rows of a raw frame in the runs
MaxRawRows == 2

\* text is a sequence of code points
SPACE == 32
Text_nan == <<110, 97, 110>>
Text_P1 == <<80, 49>>
Text_date == <<50, 48, 50, 52>>

\* a cell read_csv returns: None for an absent or empty cell (NaN), else its text
RawCells(present) == {None, Some(<<SPACE>>), Some(present)}

\* str.strip() of a text
str_strip(s) ==
    LET inked == {i \in DOMAIN s : s[i] # SPACE}
    IN  IF inked = {} THEN <<>>
        ELSE SubSeq(s, CHOOSE i \in inked : \A j \in inked : i <= j,
                       CHOOSE i \in inked : \A j \in inked : j <= i)

\* df.replace({"": pd.NA}) on a cell
replace_empty(c) == IF c = Some(<<>>) THEN None ELSE c

\* Series.astype(str) on a cell: a missing cell becomes the text nan
astype_str(c) == IF c = None THEN Some(Text_nan) ELSE c

\* Series.astype(str).str.strip() on a cell
astype_str_strip(c) == Some(str_strip(astype_str(c)[1]))

\* Series.isna() and Series == "" on a cell
isna(c) == c = None
is_empty_text(c) == c = Some(<<>>)

\* the rows of df whose index is in keep, in their order
Kept(df, keep) == SelectSeq(df, LAMBDA r : r.index \in keep)

\* products.csv, the columns the check reads
RawProducts ==
    [product_id : RawCells(Text_P1), product_name : RawCells(Text_P1)]

\* customers.csv, the columns the check and the de-duplication read
RawCustomers ==
    [customer_id : RawCells(Text_P1), name : RawCells(Text_P1),
     email : {None}, country : {None, Some("RO")}]

\* sales.csv, the columns clean_sales drops rows by
RawSales ==
    [transaction_id : RawCells(Text_P1), product_id : RawCells(Text_P1),
     customer_id : RawCells(Text_P1), transaction_date : RawCells(Text_date),
     quantity : {Some(0), Some(2)}]

\* pd.read_csv: the rows of the file, labelled 1, 2, ... by position
ReadCsv(rows, maxLen) ==
    UNION {{[i \in 1..n |-> [index |-> i, row |-> f[i]]] : f \in [1..n -> rows]} : n \in 1..maxLen}

\* ex5.py lines 66-67 and 107-111, 163-168: the columns after replace and astype(str).str.strip()
StrippedProduct(r) ==
    [r EXCEPT !.product_id = astype_str_strip(r.product_id),
              !.product_name = astype_str_strip(r.product_name)]

StrippedCustomer(r) ==
    [r EXCEPT !.customer_id = astype_str_strip(replace_empty(r.customer_id)),
              !.name = astype_str_strip(replace_empty(r.name))]

StrippedSale(r) ==
    [r EXCEPT !.transaction_id = astype_str_strip(replace_empty(r.transaction_id)),
              !.product_id = astype_str_strip(replace_empty(r.product_id)),
              !.customer_id = astype_str_strip(replace_empty(r.customer_id)),
              !.transaction_date = replace_empty(r.transaction_date)]

\* ex5.py line 69
ProductsCritMissing(r) == is_empty_text(r.product_id) \/ is_empty_text(r.product_name)

\* ex5.py line 114
CustomersCritMissing(r) ==
    isna(r.customer_id) \/ is_empty_text(r.customer_id) \/ is_empty_text(r.name)

\* ex5.py lines 170-175
SalesCritMissing(r) ==
    \/ is_empty_text(r.transaction_id)
    \/ isna(r.product_id) \/ is_empty_text(r.product_id)
    \/ isna(r.customer_id) \/ is_empty_text(r.customer_id)
    \/ isna(r.transaction_date)

\* pd.to_datetime(errors="coerce") gives a date: the cell holds a text with digits in it
parses_as_date(c) == c # None /\ str_strip(c[1]) # <<>>

\* ex5.py lines 48-102: clean_products; the category and price rules drop no row
CleanProducts ==
    /\ cleanPc = "raw"
    /\ clean_entity = "products"
    /\ LET df == [i \in DOMAIN clean_raw |-> [clean_raw[i] EXCEPT !.row = StrippedProduct(@)]]
           mask == [i \in DOMAIN df |-> ProductsCritMissing(df[i].row)]
       IN  /\ crit_missing_mask' = mask
           /\ clean_out' = Kept(df, {i \in DOMAIN df : ~mask[i]})
    /\ cleanPc' = "done"
    /\ UNCHANGED <<loaderVars, riVars, ex6Vars, dedupVars, clean_entity, clean_raw>>

\* ex5.py lines 106-155: clean_customers; a row per customer_id, keys ascending
CleanCustomers ==
    /\ cleanPc = "raw"
    /\ clean_entity = "customers"
    /\ LET df == [i \in DOMAIN clean_raw |-> [clean_raw[i] EXCEPT !.row = StrippedCustomer(@)]]
           mask == [i \in DOMAIN df |-> CustomersCritMissing(df[i].row)]
           kept == Kept(df, {i \in DOMAIN df : ~mask[i]})
           ids == {kept[k].row.customer_id[1] : k \in DOMAIN kept}
           nth(n) == CHOOSE id \in ids : Cardinality({other \in ids : StrLess(other, id)}) = n - 1
           best(id) ==
               LET group == {k \in DOMAIN kept : kept[k].row.customer_id[1] = id}
               IN  CHOOSE k \in group :
                       /\ \A j \in group : Score(kept[j].row) <= Score(kept[k].row)
                       /\ \A j \in group : Score(kept[j].row) = Score(kept[k].row) => k <= j
       IN  /\ crit_missing_mask' = mask
           /\ clean_out' = [n \in 1..Cardinality(ids) |-> kept[best(nth(n))]]
    /\ cleanPc' = "done"
    /\ UNCHANGED <<loaderVars, riVars, ex6Vars, dedupVars, clean_entity, clean_raw>>

\* ex5.py lines 159-225: clean_sales; after the check the rows of a quantity
\* that is not positive and of a date that does not parse are dropped
CleanSales ==
    /\ cleanPc = "raw"
    /\ clean_entity = "sales"
    /\ LET df == [i \in DOMAIN clean_raw |-> [clean_raw[i] EXCEPT !.row = StrippedSale(@)]]
           mask == [i \in DOMAIN df |-> SalesCritMissing(df[i].row)]
       IN  /\ crit_missing_mask' = mask
           /\ clean_out' = Kept(df, {i \in DOMAIN df :
                                       /\ ~mask[i]
                                       /\ df[i].row.quantity # None
                                       /\ df[i].row.quantity[1] > 0
                                       /\ parses_as_date(df[i].row.transaction_date)})
    /\ cleanPc' = "done"
    /\ UNCHANGED <<loaderVars, riVars, ex6Vars, dedupVars, clean_entity, clean_raw>>

\* the ex5 cleaning is not running
CleanOff ==
    /\ cleanPc = "off"
    /\ clean_entity = "none"
    /\ clean_raw = <<>>
    /\ crit_missing_mask = <<>>
    /\ clean_out = <<>>

LoaderInit ==
    /\ sales_exists = FALSE
    /\ sales = EmptyBag
    /\ stage = None
    /\ etl_state = None
    /\ now = 0
    /\ pc = [p \in AllProcs |-> "idle"]
    /\ sales_clean = [p \in AllProcs |-> <<>>]
    /\ last_wm = [p \in AllProcs |-> None]
    /\ inc_df = [p \in AllProcs |-> <<>>]
    /\ tx = [p \in AllProcs |-> NoWrites]
    /\ preSales = EmptyBag
    /\ preState = None
    /\ sameAsPrev = FALSE
    /\ prevOutcome = "none"
    /\ failedAt = "none"
    /\ wmHigh = None
    /\ overlap = FALSE

vars == <<loaderVars, riVars, ex6Vars, dedupVars, cleanVars>>

\* customer de-duplication is not running
DedupOff ==
    /\ dedupPc = "off"
    /\ program = "none"
    /\ customers_in = <<>>
    /\ customers_out = <<>>

Init == LoaderInit /\ RIIdle /\ Ex6Off /\ DedupOff /\ CleanOff

Next ==
    \/ GetLastWatermark(1)
    \/ FilterAndSort(1)
    \/ UpdateStateNoRows(1)
    \/ StageBatch(1)
    \/ CreateSalesTable(1)
    \/ DeleteMatching(1)
    \/ InsertStaged(1)
    \/ DropStage(1)
    \/ UpdateState(1)
    \/ FailStage(1)
    \/ FailInTransaction(1)
    \/ FailDrop(1)
    \/ FailUpdateState(1)
    \/ EndRun(1)
    \/ RunAgainUnchanged(1)

Spec == Init /\ [][Next]_vars

\* ex5: the referential check on every cleaned input
InitRI == LoaderInit /\ RICleaned /\ Ex6Off /\ DedupOff /\ CleanOff

NextRI ==
    \/ ValidateReferentialIntegrity
    \/ Ex5LoadToMariadb

SpecRI == InitRI /\ [][NextRI]_vars

\* ex6: the fetch loop on every array the endpoint may serve
NextEx6 ==
    \/ CallFetch
    \/ RequestTimeout
    \/ RequestException
    \/ StatusNot200
    \/ BodyNotJson
    \/ BodyNotList
    \/ BodyList
    \/ RetriesExhausted
    \/ EnrichProducts
    \/ LoadToMariadb

\* records whose two text columns are both sent or both left out
TextTogether == {r \in ApiRecords : (r.description = None) <=> (r.availability_status = None)}

InitFetch ==
    /\ LoaderInit /\ RIIdle /\ DedupOff /\ CleanOff
    /\ Ex6Cleaned(Bodies(TextTogether), {<<1>>}, {<<>>}, {<<>>})

SpecFetch == InitFetch /\ [][NextEx6]_vars

\* ex6: the enrichment on every product frame; ratings are rated or absent
RatedOrNot == {r \in ApiRecords : r.rating.kind = "missing" \/ r.rating.val = 3}

InitEnrich ==
    /\ LoaderInit /\ RIIdle /\ DedupOff /\ CleanOff
    /\ Ex6Cleaned(Bodies(RatedOrNot), SeqsUpTo(ProductIds, MaxParents), {<<>>}, {<<>>})

SpecEnrich == InitEnrich /\ [][NextEx6]_vars

\* ex6: the whole run on every cleaned input
FullRecords ==
    {r \in ApiRecords : r.description # None /\ r.availability_status # None /\ r.rating.val = 3}

Ex6SalesFrames == SeqsUpTo([product_id : ProductIds, customer_id : CustomerIds], MaxSales)

InitEx6 ==
    /\ LoaderInit /\ RIIdle /\ DedupOff /\ CleanOff
    /\ Ex6Cleaned(SeqsUpTo(FullRecords, 1), SeqsUpTo(ProductIds, MaxParents),
                  SeqsUpTo(CustomerIds, MaxParents), Ex6SalesFrames)

SpecEx6 == InitEx6 /\ [][NextEx6]_vars

\* main is a sequential program: it keeps executing until it returns
InitRun ==
    /\ LoaderInit /\ RIIdle /\ DedupOff /\ CleanOff
    /\ Ex6Cleaned(SeqsUpTo(FullRecords, 1), SeqsUpTo(ProductIds, 1), {<<>>}, {<<>>})

FairSpecEx6 == InitRun /\ [][NextEx6]_vars /\ WF_vars(NextEx6)

\* the customer cleaning of each script on every customers file
InitDedup ==
    /\ LoaderInit /\ RIIdle /\ Ex6Off /\ CleanOff
    /\ dedupPc = "raw"
    /\ program \in {"ex2", "ex3", "ex5", "ex6"}
    /\ customers_in \in SeqsUpTo(CustomerRecords, MaxCustomers)
    /\ customers_out = <<>>

NextDedup ==
    \/ TransformCustomers
    \/ Ex5CleanCustomers
    \/ Ex6CleanCustomers

SpecDedup == InitDedup /\ [][NextDedup]_vars

\* the second invocation: the writer that starts first is called 1, and the
\* file the second one reads has at most two rows
SecondStarts ==
    /\ pc[1] # "idle"
    /\ GetLastWatermark(2)
    /\ sales_clean'[2] \in SeqsUpTo(CleanRows, 2)

\* ex3: two invocations of the pipeline, their statements interleaved; each
\* runs once, no statement raises
NextConc ==
    \/ GetLastWatermark(1)
    \/ FilterAndSort(1)
    \/ UpdateStateNoRows(1)
    \/ StageBatch(1)
    \/ CreateSalesTable(1)
    \/ DeleteMatching(1)
    \/ InsertStaged(1)
    \/ DropStage(1)
    \/ UpdateState(1)
    \/ SecondStarts
    \/ FilterAndSort(2)
    \/ UpdateStateNoRows(2)
    \/ StageBatch(2)
    \/ CreateSalesTable(2)
    \/ DeleteMatching(2)
    \/ InsertStaged(2)
    \/ DropStage(2)
    \/ UpdateState(2)

SpecConc == Init /\ [][NextConc]_vars

\* ex3: every run succeeds and the source only grows, by ex3-test.py
NextAppend ==
    \/ GetLastWatermark(1)
    \/ FilterAndSort(1)
    \/ UpdateStateNoRows(1)
    \/ StageBatch(1)
    \/ CreateSalesTable(1)
    \/ DeleteMatching(1)
    \/ InsertStaged(1)
    \/ DropStage(1)
    \/ UpdateState(1)
    \/ RunAppended(1)

SpecAppend == Init /\ [][NextAppend]_vars

\* ex5.py lines 325-332: a file is read and its cleaning function is called
InitClean ==
    /\ LoaderInit /\ RIIdle /\ Ex6Off /\ DedupOff
    /\ cleanPc = "raw"
    /\ \/ clean_entity = "products" /\ clean_raw \in ReadCsv(RawProducts, MaxRawRows)
       \/ clean_entity = "customers" /\ clean_raw \in ReadCsv(RawCustomers, MaxRawRows)
       \/ clean_entity = "sales" /\ clean_raw \in ReadCsv(RawSales, 1)
    /\ crit_missing_mask = <<>>
    /\ clean_out = <<>>

NextClean == CleanProducts \/ CleanCustomers \/ CleanSales

SpecClean == InitClean /\ [][NextClean]_vars

\* ================================================================= claims
\* ------------------------------------------------------------- helpers
Idx(df) == {df[i].idx : i \in DOMAIN df}

SameSale(a, b) ==
    a.idx = b.idx /\ a.product_id = b.product_id /\ a.customer_id = b.customer_id

\* last_processed_date of a state table, None without a row
Wm(state) == IF state = None THEN None ELSE state[1].last_processed_date

\* NULL (or no row) is below every date
WmLeq(a, b) == a = None \/ (b # None /\ a[1] <= b[1])

DateOf(r) == to_datetime(r.transaction_date)

BatchIds(df) == {df[i].transaction_id : i \in DOMAIN df}

MaxDateOf(df) == CHOOSE d \in {DateOf(df[i]) : i \in DOMAIN df} :
                    \A i \in DOMAIN df : DateOf(df[i]) <= d

Count(df, r) == Cardinality({i \in DOMAIN df : df[i] = r})

SinkRows == [transaction_id : TransactionIds, transaction_date : Dates]

\* result is pre with every row keyed in batch replaced by the rows of batch
IsUpsertOf(result, pre, batch) ==
    /\ BagToSet(result) \subseteq SinkRows
    /\ \A r \in SinkRows :
        CopiesIn(r, result) =
            IF r.transaction_id \in BatchIds(batch)
            THEN Cardinality({i \in DOMAIN batch :
                    /\ batch[i].transaction_id = r.transaction_id
                    /\ DateOf(batch[i]) = r.transaction_date})
            ELSE CopiesIn(r, pre)

\* the run of writer 1 has computed inc_df from sales_clean and last_wm
Filtered == pc[1] \in {"empty", "stage", "create", "delete", "insert", "drop", "update", "done"}

\* C1: validate_referential_integrity partitions its input: every input row
\* is in exactly one of valid and rejected, unchanged, none dropped or
\* invented, and |valid| + |rejected| = |cleaned|.
C1_PartitionCompleteness ==
    riPc = "validated" =>
        /\ Idx(valid_df) \cap Idx(rejected_df) = {}
        /\ Idx(valid_df) \cup Idx(rejected_df) = Idx(sales_df)
        /\ Len(valid_df) + Len(rejected_df) = Len(sales_df)
        /\ \A i \in DOMAIN valid_df : SameSale(valid_df[i], sales_df[valid_df[i].idx])
        /\ \A i \in DOMAIN rejected_df : SameSale(rejected_df[i], sales_df[rejected_df[i].idx])

C1_Witness ==
    /\ riPc = "validated"
    /\ Len(valid_df) = 1
    /\ Len(rejected_df) = 1
    /\ rejected_df[1].product_id \in Range(products_df)

\* C2: a row is valid iff its product_id is a product key and its
\* customer_id is a customer key; a rejected row carries INVALID_PRODUCT_ID
\* exactly when the product test fails and INVALID_CUSTOMER_ID exactly when
\* the customer test fails, and its reason is never empty.
C2_ValidIffBothKeys ==
    riPc = "validated" =>
        /\ \A i \in DOMAIN sales_df :
            (sales_df[i].idx \in Idx(valid_df)) <=>
                (/\ sales_df[i].product_id \in Range(products_df)
                 /\ sales_df[i].customer_id \in Range(customers_df))
        /\ \A i \in DOMAIN rejected_df :
            /\ ("INVALID_PRODUCT_ID;" \in Range(rejected_df[i].reject_reason))
                    <=> (rejected_df[i].product_id \notin Range(products_df))
            /\ ("INVALID_CUSTOMER_ID;" \in Range(rejected_df[i].reject_reason))
                    <=> (rejected_df[i].customer_id \notin Range(customers_df))
            /\ rejected_df[i].reject_reason # <<>>

C2_Witness ==
    /\ riPc = "validated"
    /\ Len(valid_df) = 1
    /\ Len(rejected_df) = 1
    /\ Len(rejected_df[1].reject_reason) = 2

\* C3: over successful runs the stored last_processed_date never decreases:
\* at the end of a successful run it is at least what it was at its start.
C3_WatermarkMonotone ==
    pc[1] = "done" => WmLeq(Wm(preState), Wm(etl_state))

C3_Witness ==
    /\ pc[1] = "done"
    /\ Wm(preState) # None
    /\ Wm(etl_state)[1] > Wm(preState)[1]

\* C4: a successful run that gets the same cleaned source as the successful
\* run before it leaves the sink and last_processed_date as that run left them.
C4_IncrementalIdempotence ==
    (pc[1] = "done" /\ prevOutcome = "done" /\ sameAsPrev) =>
        /\ sales = preSales
        /\ Wm(etl_state) = Wm(preState)

C4_Witness ==
    /\ pc[1] = "done"
    /\ prevOutcome = "done"
    /\ sameAsPrev
    /\ Len(sales_clean[1]) = 2
    /\ DateOf(sales_clean[1][1]) # DateOf(sales_clean[1][2])
    /\ sales # EmptyBag

\* C5: a run that raises inside the transaction block (CREATE, DELETE,
\* INSERT or DROP) leaves the sink and the watermark row as they were before
\* the run (update_state has not run).
C5_FailedUpsertLeavesPreRunState ==
    (pc[1] = "failed" /\ failedAt \in {"create", "delete", "insert", "drop"}) =>
        /\ sales = preSales
        /\ etl_state = preState

\* C6: the committed sink never shows the DELETE without the INSERT: at any
\* point of a run, and after any failure, it is the pre-run sink or the
\* complete upsert of the batch.
C6_UpsertAtomic ==
    \/ sales = preSales
    \/ IsUpsertOf(sales, preSales, inc_df[1])

C6_Witness ==
    /\ pc[1] = "failed"
    /\ failedAt = "insert"
    /\ \E r \in BagToSet(preSales) : r.transaction_id \in BatchIds(inc_df[1])

\* C7: without a watermark the batch is every row of the cleaned source;
\* after a successful non-empty load last_processed_date is the newest
\* transaction_date of the batch.
C7_FullLoadAndNewWatermark ==
    /\ (Filtered /\ last_wm[1] = None) =>
            BagOfSeq(inc_df[1]) = BagOfSeq(sales_clean[1])
    /\ (pc[1] = "done" /\ Len(inc_df[1]) > 0) =>
            Wm(etl_state) = Some(MaxDateOf(inc_df[1]))

C7_Witness ==
    /\ pc[1] = "done"
    /\ last_wm[1] = None
    /\ Len(inc_df[1]) = 2
    /\ DateOf(sales_clean[1][1]) > DateOf(sales_clean[1][2])
    /\ DateOf(sales_clean[1][1]) >= 10
    /\ DateOf(sales_clean[1][2]) < 10

C9_EmptyRunWritesState ==
    (pc[1] = "done" /\ Len(inc_df[1]) = 0) =>
        /\ sales = preSales
        /\ etl_state # None
        /\ Wm(etl_state) = Wm(preState)
        /\ etl_state[1].last_run_rows = 0
        /\ etl_state[1].last_run_ts = now

C9_Witness ==
    /\ pc[1] = "done"
    /\ Len(inc_df[1]) = 0
    /\ Len(sales_clean[1]) > 0
    /\ preState # None
    /\ preState[1].last_run_rows > 0
    /\ sales # EmptyBag

\* C10: after a successful non-empty load the sink is the pre-run sink
\* without the rows whose transaction_id is in the batch, plus the rows of
\* the batch; rows of other ids are untouched and the staging table is gone.
C10_UpsertFrame ==
    (pc[1] = "done" /\ Len(inc_df[1]) > 0) =>
        /\ IsUpsertOf(sales, preSales, inc_df[1])
        /\ stage = None

C10_Witness ==
    /\ pc[1] = "done"
    /\ Len(inc_df[1]) > 0
    /\ \E r \in BagToSet(preSales) :
        /\ r.transaction_id \in BatchIds(inc_df[1])
        /\ CopiesIn(r, sales) = 0
    /\ \E r \in BagToSet(preSales) : r.transaction_id \notin BatchIds(inc_df[1])

\* ------------------------------------------------------------ ex6 fetcher
RECURSIVE SumSeq(_)
SumSeq(q) == IF q = <<>> THEN 0 ELSE Head(q) + SumSeq(Tail(q))

Last(q) == q[Len(q)]

FetchReturned == fetch_exit # "none"

Retryable == {"timeout", "status"}

\* the position of the last record of the array that carries the product id
LastOf(data, id) ==
    CHOOSE j \in DOMAIN data :
        /\ data[j].product_id = id
        /\ \A k \in DOMAIN data : k > j => data[k].product_id # id

\* C11: whatever the endpoint does, fetch_all_product_metadata issues at most
\* MAX_RETRIES requests and its backoff waits add up to at most
\* BACKOFF_FACTOR^1 + ... + BACKOFF_FACTOR^MAX_RETRIES.
C11_BoundedRequestsAndWait ==
    /\ requests <= MAX_RETRIES
    /\ SumSeq(waits) <= SumSeq([k \in 1..MAX_RETRIES |-> Pow(BACKOFF_FACTOR, k)])

\* three timeouts: the three requests are spent and the bound is met
C11_Witness ==
    /\ FetchReturned
    /\ outcomes = <<"timeout", "timeout", "timeout">>
    /\ requests = MAX_RETRIES
    /\ SumSeq(waits) = 14

\* C12: k statuses other than 200 in a row are answered like k timeouts in a
\* row: k requests and the waits BACKOFF_FACTOR^1 .. BACKOFF_FACTOR^k that the
\* timeouts make, and after MAX_RETRIES of either the result is empty.
C12_StatusRetriedLikeTimeout ==
    \A kind \in Retryable :
        (/\ ex6pc \in {"fetch", "fetched"}
         /\ \A i \in DOMAIN outcomes : outcomes[i] = kind)
        => /\ requests = Len(outcomes)
           /\ waits = [i \in 1..Len(outcomes) |-> Pow(BACKOFF_FACTOR, i)]
           /\ (ex6pc = "fetched" => Len(outcomes) = MAX_RETRIES /\ api_metadata_df = <<>>)

\* C13: a transport error other than a timeout, a body that is not JSON and
\* a body that is not an array end the fetch at once: the result is empty,
\* no request follows and no wait follows.
C13_FatalOutcomeReturnsAtOnce ==
    (outcomes # <<>> /\ Last(outcomes) \in {"error", "not json", "not list"})
    => /\ ex6pc # "fetch"
       /\ api_metadata_df = <<>>
       /\ requests = Len(outcomes)
       /\ Len(waits) = Len(outcomes) - 1

\* a timeout, then a body that is not an array
C13_Witness ==
    /\ ex6pc = "fetched"
    /\ outcomes = <<"timeout", "not list">>
    /\ waits = <<2>>

C19_RatingClamped ==
    \A i \in DOMAIN api_metadata_df :
        LET raw == endpoint_body[LastOf(endpoint_body, api_metadata_df[i].product_id)].rating
            rating == api_metadata_df[i].rating
        IN  /\ rating = None \/ (rating[1] >= 0 /\ rating[1] <= 5)
            /\ raw.kind # "num" => rating = None
            /\ (raw.kind = "num" /\ raw.val < 0) => rating = Some(0)
            /\ (raw.kind = "num" /\ raw.val > 5) => rating = Some(5)
            /\ (raw.kind = "num" /\ raw.val >= 0 /\ raw.val <= 5) => rating = Some(raw.val)

\* one rating from below and one from above the range
C19_Witness ==
    /\ Len(api_metadata_df) = 2
    /\ endpoint_body[1].rating = [kind |-> "num", val |-> -1]
    /\ endpoint_body[2].rating = [kind |-> "num", val |-> 6]
    /\ api_metadata_df[1].rating = Some(0)
    /\ api_metadata_df[2].rating = Some(5)

\* ---------------------------------------------- ex6 enrichment and load
\* C17: in the enriched frame every product without a metadata row, and every
\* product when the fetched metadata is empty, has the placeholder
\* description, availability_status 'Unknown' and a null rating.
C17_UnmatchedProductsGetDefaults ==
    ex6pc \in {"enriched", "loaded"}
    => \A i \in DOMAIN products_enriched :
           (api_metadata_df = <<>> \/ Matches(api_metadata_df, products_enriched[i].product_id) = {})
           => /\ products_enriched[i].description = Some(NoDescription)
              /\ products_enriched[i].availability_status = Some("Unknown")
              /\ products_enriched[i].rating = None

\* C18: whatever the fetch returns, the run goes on to the enrichment and to
\* the load of products, customers and sales, and the load happens only
\* after the fetch has returned and the enrichment is complete.
C18_RunCompletesAfterAnyFetch ==
    /\ [](ex6_tables # None
            => /\ FetchReturned
               /\ products_enriched = enrich_products_with_api(ex6_products_clean, api_metadata_df)
               /\ ex6_tables[1].products = products_enriched)
    /\ (ex6pc = "cleaned" ~> ex6pc = "loaded")

\* a transport error, and the three tables are loaded all the same
C18_Witness ==
    /\ ex6pc = "loaded"
    /\ fetch_exit = "line 87"
    /\ ex6_tables # None
    /\ Len(ex6_tables[1].products) = 1

\* the product and customer key sets of a loaded run
KeysOf(column) == Range(column)

\* C16: every sales row written to the sales table has its product_id among
\* the product keys and its customer_id among the customer keys loaded by
\* the same run.  Stated for the replace loads of ex5 and ex6; the rows of
\* the ex3 loader above carry no parent keys.
C16_LoadedSalesHaveParents ==
    /\ ex6_tables # None
       => \A i \in DOMAIN ex6_tables[1].sales :
              /\ ex6_tables[1].sales[i].product_id
                     \in {ex6_tables[1].products[j].product_id : j \in DOMAIN ex6_tables[1].products}
              /\ ex6_tables[1].sales[i].customer_id \in KeysOf(ex6_tables[1].customers)
    /\ ex5_tables # None
       => \A i \in DOMAIN ex5_tables[1].sales :
              /\ ex5_tables[1].sales[i].product_id \in KeysOf(ex5_tables[1].products)
              /\ ex5_tables[1].sales[i].customer_id \in KeysOf(ex5_tables[1].customers)

\* ------------------------------------------------------ customer cleaning
\* the record as the cleaning of the running script leaves it
CleanedCustomer(r) ==
    IF program \in {"ex5", "ex6"} THEN EmailChecked(NameAsStr(r)) ELSE EmailChecked(r)

\* C15: every customer cleaning (transform_customers of ex2 and ex3,
\* clean_customers of ex5 and ex6) returns, for each customer_id of its
\* input, exactly one record, and it is the earliest of the records of that
\* id that have the most non-null cells among name, email and country.
C15_MostCompleteEarliestWins ==
    dedupPc = "done"
    => \A id \in {customers_in[i].customer_id : i \in DOMAIN customers_in} :
           LET group == {i \in DOMAIN customers_in : customers_in[i].customer_id = id}
               best == {i \in group : \A j \in group :
                            Score(CleanedCustomer(customers_in[j]))
                                <= Score(CleanedCustomer(customers_in[i]))}
               first == CHOOSE i \in best : \A j \in best : i <= j
               out == {k \in DOMAIN customers_out : customers_out[k].customer_id = id}
           IN  /\ Cardinality(out) = 1
               /\ \A k \in out : customers_out[k] = CleanedCustomer(customers_in[first])

\* ------------------------------------------------------ concurrent writers
\* the stored watermark is older than one that was stored before
WatermarkRegressed == Wm(etl_state) # Newest(Wm(etl_state), wmHigh)

\* the sink holds a transaction id twice although no batch did
DuplicatedRow ==
    /\ \A p \in AllProcs : \A i, j \in DOMAIN sales_clean[p] :
           sales_clean[p][i].transaction_id = sales_clean[p][j].transaction_id => i = j
    /\ \E r \in BagToSet(sales) :
           \/ sales[r] > 1
           \/ \E q \in BagToSet(sales) : q # r /\ q.transaction_id = r.transaction_id

\* a writer is inside its transaction and the staging table is not its batch
StageReplaced ==
    \E p \in AllProcs : pc[p] \in {"delete", "insert", "drop"} /\ stage # Some(inc_df[p])

\* C20: the incremental loader is unsafe under concurrent writers.  With two
\* invocations interleaved statement by statement a state that no serial
\* execution produces is reached: a batch row twice in the sink, the staging
\* table of a run replaced or dropped before the run consumed it, or a stored
\* watermark lower than one stored before.  Such a state comes only from
\* runs that overlapped, and nothing keeps runs from overlapping.
C20_AnomalyOnlyFromOverlap ==
    (DuplicatedRow \/ StageReplaced \/ WatermarkRegressed) => overlap

\* both writers started from an empty state table; the one with the older
\* batch wrote its watermark last
C20_Witness ==
    /\ pc[1] = "done" /\ pc[2] = "done"
    /\ overlap
    /\ WatermarkRegressed
    /\ etl_state[1].last_processed_date = Some(9)
    /\ wmHigh = Some(10)

\* ------------------------------------------------ recovery of the loader
\* C22: a run raised in update_state, after its upsert was committed, and the
\* pipeline is run again on the same source.  The run selects the batch the
\* sink already holds, leaves the sink as the committed upsert made it, each
\* batch row in it once, and stores the newest date of the batch: the sink
\* and the watermark of a run that was not interrupted.
C22_RerunAfterLostWatermark ==
    /\ (Filtered /\ sameAsPrev /\ prevOutcome = "update")
       => /\ inc_df[1] # <<>>
          /\ IsUpsertOf(preSales, preSales, inc_df[1])
    /\ (pc[1] = "done" /\ sameAsPrev /\ prevOutcome = "update")
       => /\ sales = preSales
          /\ IsUpsertOf(sales, preSales, inc_df[1])
          /\ Wm(etl_state) = Some(MaxDateOf(inc_df[1]))
          /\ etl_state[1].last_run_rows = Len(inc_df[1])

\* the second run is through; the batch has two rows of different dates
C22_Witness ==
    /\ pc[1] = "done"
    /\ sameAsPrev
    /\ prevOutcome = "update"
    /\ Len(inc_df[1]) = 2
    /\ inc_df[1][1].transaction_id # inc_df[1][2].transaction_id
    /\ DateOf(inc_df[1][1]) < DateOf(inc_df[1][2])
    /\ Wm(etl_state) = Some(10)

\* ------------------------------------------------- rows behind the watermark
\* C24: once a watermark W is stored, a later run stages, inserts and
\* deletes only on account of source rows dated after W: every row it adds
\* to the sink is dated after W, and every row it removes carries the
\* transaction_id of a source row dated after W.  A source row dated W or
\* earlier that shows up after W was stored is never loaded.
C24_NothingLoadedBehindWatermark ==
    Wm(preState) # None =>
        LET W == Wm(preState)[1]
            fresh == {i \in DOMAIN sales_clean[1] : DateOf(sales_clean[1][i]) > W}
        IN  /\ Filtered => \A i \in DOMAIN inc_df[1] : DateOf(inc_df[1][i]) > W
            /\ \A r \in BagToSet(tx[1].ins) : r.transaction_date > W
            /\ \A r \in BagToSet(tx[1].del) :
                   \E i \in fresh : sales_clean[1][i].transaction_id = r.transaction_id
            /\ \A r \in SinkRows :
                   /\ CopiesIn(r, sales) > CopiesIn(r, preSales) => r.transaction_date > W
                   /\ CopiesIn(r, sales) < CopiesIn(r, preSales)
                          => \E i \in fresh : sales_clean[1][i].transaction_id = r.transaction_id

\* transaction 2 arrives dated on the watermark together with a newer row:
\* the newer row is loaded, the late one is not
C24_Witness ==
    /\ pc[1] = "done"
    /\ Wm(preState) = Some(9)
    /\ preSales # EmptyBag
    /\ \A r \in BagToSet(preSales) : r.transaction_id = 1
    /\ Len(sales_clean[1]) = 2
    /\ sales_clean[1][1] = [transaction_id |-> 2, transaction_date |-> Strftime(9)]
    /\ DateOf(sales_clean[1][2]) = 10
    /\ Len(inc_df[1]) = 1
    /\ CopiesIn([transaction_id |-> 2, transaction_date |-> 9], sales) = 0

\* ------------------------------------------------------ append-only source
\* C23: every run succeeds, the transaction ids of the source are unique and
\* each source is the one before plus rows dated after its newest date.
\* Then after every run the sink holds exactly the rows of the current
\* cleaned source, what a full replace load of that source would write.
C23_IncrementalEqualsFullLoad ==
    (/\ pc[1] = "done"
     /\ \A i, j \in DOMAIN sales_clean[1] :
            sales_clean[1][i].transaction_id = sales_clean[1][j].transaction_id => i = j)
    => sales = BagOfSeq([i \in DOMAIN sales_clean[1] |-> SinkRow(sales_clean[1][i])])

\* the second run: one row was there, one was appended, only that one was
\* in the batch, and the sink holds both
C23_Witness ==
    /\ pc[1] = "done"
    /\ now = 2
    /\ Len(sales_clean[1]) = 2
    /\ sales_clean[1][1].transaction_id # sales_clean[1][2].transaction_id
    /\ last_wm[1] = Some(DateOf(sales_clean[1][1]))
    /\ inc_df[1] = <<sales_clean[1][2]>>
    /\ BagCardinality(sales) = 2

\* ------------------------------------------- ex5 cleaning, required fields
RequiredFields ==
    [products |-> {"product_id", "product_name"},
     customers |-> {"customer_id", "name"},
     sales |-> {"transaction_id", "product_id", "customer_id", "transaction_date"}]

\* the cell is absent, empty or holds nothing but whitespace
IsMissing(c) == c = None \/ str_strip(c[1]) = <<>>

\* C21: a raw row of products, customers or sales in which a required field
\* is absent, empty or whitespace-only is in no cleaned output, and the
\* required-field check drops no row whose required fields are all present.
C21_MissingRequiredNeverCleaned ==
    cleanPc = "done"
    => \A i \in DOMAIN clean_raw :
           LET missing == {f \in RequiredFields[clean_entity] : IsMissing(clean_raw[i].row[f])}
           IN  /\ missing # {} => \A k \in DOMAIN clean_out : clean_out[k].index # i
               /\ missing = {} => ~crit_missing_mask[i]

====
